---- MODULE Spec2Model ----
(***************************************************************************)
(* stringshare: the HTTP route layer of app/server.py over the store,      *)
(* the auth component and the domain methods it delegates to.              *)
(*                                                                         *)
(* The routes (which of them carry the auth dependency, what they pass to  *)
(* which method) are app/server.py.  The modules auth, methods and helper  *)
(* are imported by server.py (lines 10-15); their bodies are modelled      *)
(* after sections 3, 4 and 7 of the specification.                         *)
(***************************************************************************)
EXTENDS Integers, Sequences, FiniteSets

(* ------------------------------ bounds -------------------------------- *)
MaxTokens == 2
MaxRows == 3

(* ------------------------------ values -------------------------------- *)
Usernames == {"a", "b"}
Passwords == {"p"}
LoginPasswords == Passwords \cup {"q"}
NoPassword == "none"
Local == "local"
RemoteInstances == {"s1"}
NoUser == "nobody"
NoToken == 0
Out(kind, body) == [kind |-> kind, body |-> body]
NoOut == Out("none", <<>>)
NoRelay == <<>>
TokenIds == 1..MaxTokens
Tokens == {NoToken} \cup TokenIds
LocalPostIds == 1..MaxRows
RemotePostIds == {0}
MissingPostId == MaxRows + 1
PostIds == LocalPostIds \cup RemotePostIds \cup {MissingPostId}
Queries == {""} \cup Usernames
Files == {"f"}
NoFile == "nofile"

HTTP_200_OK == 200
HTTP_201_CREATED == 201
Unauthorized == 401
Forbidden == 403
NotFound == 404
Conflict == 409

(* ------------------------------ state --------------------------------- *)
VARIABLES
    users,      \* table of users: rows [username, password, home, active]
    follows,    \* table of follows: number of rows per <<follower, followee>>
    posts,      \* table of posts: rows [id, author, created]
    comments,   \* table of comments: rows [id, post, author]
    likes,      \* table of likes: number of rows per <<post, author>>
    tokens,     \* bearer tokens issued by login: rows [tok, username]
    lastCall    \* the response to the request handled last

vars == <<users, follows, posts, comments, likes, tokens, lastCall>>

Pairs == Usernames \X Usernames
LikeKeys == PostIds \X Usernames

EmptyDb ==
    [users |-> {}, follows |-> [p \in Pairs |-> 0], posts |-> {},
     comments |-> {}, likes |-> [k \in LikeKeys |-> 0]]

Db ==
    [users |-> users, follows |-> follows, posts |-> posts,
     comments |-> comments, likes |-> likes]

SetDb(d) ==
    /\ users' = d.users
    /\ follows' = d.follows
    /\ posts' = d.posts
    /\ comments' = d.comments
    /\ likes' = d.likes

(* ------------------------------ helpers ------------------------------- *)
UserExists(d, name) == \E u \in d.users : u.username = name
UserRow(d, name) == CHOOSE u \in d.users : u.username = name
PostExists(d, id) == \E p \in d.posts : p.id = id
PostRow(d, id) == CHOOSE p \in d.posts : p.id = id
HomeOf(d, name) == UserRow(d, name).home
IsRemote(d, name) == UserExists(d, name) /\ HomeOf(d, name) # Local
Following(d, name) == {t \in Usernames : d.follows[<<name, t>>] > 0}
Followers(d, name) == {f \in Usernames : d.follows[<<f, name>>] > 0}
Total(f) ==
    LET RECURSIVE Sum(_)
        Sum(S) == IF S = {} THEN 0
                  ELSE LET k == CHOOSE x \in S : TRUE
                       IN f[k] + Sum(S \ {k})
    IN Sum(DOMAIN f)
Rows(d) ==
    Total(d.follows) + Cardinality(d.posts) + Cardinality(d.comments) + Total(d.likes)

\* The creation time of the next post or comment, which also makes its id:
\* one more than the rows stamped so far.
Now(d) == Cardinality(d.posts) + Cardinality(d.comments) + 1

\* The token the next successful login hands out.
nextToken == Cardinality(tokens) + 1

Res(status, d, out, relay) ==
    [status |-> status, db |-> d, out |-> out, relay |-> relay]

\* One best-effort push to each instance of `instances`; `ok` is whether the
\* outbound call went through.  Nothing is kept for a later attempt.
Relay(instances, ok) ==
    LET RECURSIVE Push(_)
        Push(S) == IF S = {} THEN <<>>
                   ELSE LET i == CHOOSE x \in S : TRUE
                        IN <<[to |-> i, ok |-> ok]>> \o Push(S \ {i})
    IN Push(instances)

(* ------------------------------- auth --------------------------------- *)
\* auth.login: the credentials are checked against the stored ones.
auth_login(d, username, password) ==
    IF \E u \in d.users : u.username = username /\ u.password = password
    THEN Res(HTTP_200_OK, d, Out("token", [access_token |-> nextToken, username |-> username]),
             NoRelay)
    ELSE Res(Unauthorized, d, NoOut, NoRelay)

\* auth.get_current_active_user: the token is resolved to its user.
get_current_active_user(tok) ==
    IF ~ \E t \in tokens : t.tok = tok
    THEN [status |-> Unauthorized, user |-> NoUser]
    ELSE LET name == (CHOOSE t \in tokens : t.tok = tok).username
         IN IF ~ UserExists(Db, name)
            THEN [status |-> Unauthorized, user |-> NoUser]
            ELSE IF ~ UserRow(Db, name).active
            THEN [status |-> Forbidden, user |-> NoUser]
            ELSE [status |-> HTTP_200_OK, user |-> name]

Accepted(tok) == get_current_active_user(tok).status = HTTP_200_OK

(* --------------------------- domain methods --------------------------- *)
NewUser(username, password, home) ==
    [username |-> username, password |-> password, home |-> home, active |-> TRUE]

methods_create_user(d, username, password) ==
    IF UserExists(d, username)
    THEN Res(Conflict, d, NoOut, NoRelay)
    ELSE Res(HTTP_201_CREATED,
             [d EXCEPT !.users = @ \cup {NewUser(username, password, Local)}],
             NoOut, NoRelay)

methods_get_user_profile(d, username, requester) ==
    IF ~ UserExists(d, username)
    THEN Res(NotFound, d, NoOut, NoRelay)
    ELSE Res(HTTP_200_OK, d, Out("user", [username |-> username, home |-> HomeOf(d, username)]),
             NoRelay)

Matches(query, name) == query = "" \/ query = name

methods_search_users(d, query, requester) ==
    Res(HTTP_200_OK, d,
        Out("users", {u.username : u \in {v \in d.users : Matches(query, v.username)}}),
        NoRelay)

methods_get_activity(d, user) == Res(HTTP_200_OK, d, NoOut, NoRelay)

methods_follow_user(d, username, requester, ok) ==
    IF ~ UserExists(d, username)
    THEN Res(NotFound, d, NoOut, NoRelay)
    ELSE IF d.follows[<<requester, username>>] > 0
    THEN Res(Conflict, d, NoOut, NoRelay)
    ELSE Res(HTTP_201_CREATED,
             [d EXCEPT !.follows[<<requester, username>>] = @ + 1],
             NoOut,
             IF IsRemote(d, username) THEN Relay({HomeOf(d, username)}, ok) ELSE NoRelay)

\* The follower is the remote user of the payload, recorded with its home
\* instance the first time it is seen.
methods_server_follow_user(d, username, user) ==
    IF ~ UserExists(d, username)
    THEN Res(NotFound, d, NoOut, NoRelay)
    ELSE IF d.follows[<<user.username, username>>] > 0
    THEN Res(Conflict, d, NoOut, NoRelay)
    ELSE LET known == IF UserExists(d, user.username) THEN d.users
                      ELSE d.users \cup {NewUser(user.username, NoPassword, user.home)}
         IN Res(HTTP_201_CREATED,
                [d EXCEPT !.users = known, !.follows[<<user.username, username>>] = @ + 1],
                Out("user", [username |-> username, home |-> HomeOf(d, username)]), NoRelay)

methods_get_followers(d, user) ==
    Res(HTTP_200_OK, d, Out("followers", [f \in Usernames |-> d.follows[<<f, user>>]]), NoRelay)

methods_get_following(d, user) ==
    Res(HTTP_200_OK, d, Out("following", [t \in Usernames |-> d.follows[<<user, t>>]]), NoRelay)

\* The text of a bio, like the text of a post or of a comment, is not tracked.
methods_create_bio(d, bio, user) == Res(HTTP_201_CREATED, d, NoOut, NoRelay)

\* Files live in the media location, outside the store: `stored` is whether
\* the media location holds the file behind `url`.
methods_update_avatar(d, file, user) == Res(HTTP_201_CREATED, d, NoOut, NoRelay)

methods_get_photo(d, url, stored) ==
    IF stored THEN Res(HTTP_200_OK, d, NoOut, NoRelay)
    ELSE Res(NotFound, d, NoOut, NoRelay)

\* The rows of S, the newest first.
NewestFirst(S) ==
    LET RECURSIVE Sorted(_)
        Sorted(T) == IF T = {} THEN <<>>
                     ELSE LET p == CHOOSE x \in T : \A y \in T : y.created <= x.created
                          IN <<p>> \o Sorted(T \ {p})
    IN Sorted(S)

methods_get_feed(d, user) ==
    Res(HTTP_200_OK, d,
        Out("feed", NewestFirst({p \in d.posts :
                                    p.author = user \/ p.author \in Following(d, user)})),
        NoRelay)

methods_get_post(d, post_id, user) ==
    IF ~ PostExists(d, post_id)
    THEN Res(NotFound, d, NoOut, NoRelay)
    ELSE Res(HTTP_200_OK, d, Out("post", PostRow(d, post_id)), NoRelay)

methods_get_post_likes(d, post_id) ==
    Res(HTTP_200_OK, d, Out("likes", [u \in Usernames |-> d.likes[<<post_id, u>>]]), NoRelay)

methods_get_post_comments(d, post_id) ==
    Res(HTTP_200_OK, d, Out("comments", {c \in d.comments : c.post = post_id}), NoRelay)

\* The home instances of the remote followers of `user`.
FollowerInstances(d, user) == {HomeOf(d, f) : f \in {g \in Followers(d, user) : IsRemote(d, g)}}

\* The instance that owns post `post_id`, when it is not this one.
OwnerInstance(d, post_id) ==
    IF IsRemote(d, PostRow(d, post_id).author)
    THEN {HomeOf(d, PostRow(d, post_id).author)}
    ELSE {}

methods_create_post(d, photo, user, ok) ==
    LET row == [id |-> Now(d), author |-> user, created |-> Now(d)]
    IN Res(HTTP_201_CREATED, [d EXCEPT !.posts = @ \cup {row}], Out("post", row),
           Relay(FollowerInstances(d, user), ok))

methods_create_comment(d, comment, user, ok) ==
    IF ~ PostExists(d, comment.post_id)
    THEN Res(NotFound, d, NoOut, NoRelay)
    ELSE LET row == [id |-> Now(d), post |-> comment.post_id, author |-> user]
         IN Res(HTTP_201_CREATED, [d EXCEPT !.comments = @ \cup {row}], Out("comment", row),
                Relay(OwnerInstance(d, comment.post_id), ok))

methods_create_like(d, post_id, user, ok) ==
    IF ~ PostExists(d, post_id)
    THEN Res(NotFound, d, NoOut, NoRelay)
    ELSE Res(HTTP_201_CREATED, [d EXCEPT !.likes[<<post_id, user>>] = @ + 1],
             Out("like", [post |-> post_id, author |-> user]),
             Relay(OwnerInstance(d, post_id), ok))

methods_server_create_post(d, post_id, photo, username) ==
    IF ~ UserExists(d, username)
    THEN Res(NotFound, d, NoOut, NoRelay)
    ELSE IF PostExists(d, post_id)
    THEN Res(Conflict, d, NoOut, NoRelay)
    ELSE LET row == [id |-> post_id, author |-> username, created |-> Now(d)]
         IN Res(HTTP_201_CREATED, [d EXCEPT !.posts = @ \cup {row}], Out("post", row), NoRelay)

methods_server_create_comment(d, comment) ==
    IF ~ UserExists(d, comment.username) \/ ~ PostExists(d, comment.post_id)
    THEN Res(NotFound, d, NoOut, NoRelay)
    ELSE LET row == [id |-> Now(d), post |-> comment.post_id, author |-> comment.username]
         IN Res(HTTP_201_CREATED, [d EXCEPT !.comments = @ \cup {row}], Out("comment", row),
                NoRelay)

methods_server_create_like(d, like) ==
    IF ~ UserExists(d, like.username) \/ ~ PostExists(d, like.post_id)
    THEN Res(NotFound, d, NoOut, NoRelay)
    ELSE Res(HTTP_201_CREATED, [d EXCEPT !.likes[<<like.post_id, like.username>>] = @ + 1],
             Out("like", [post |-> like.post_id, author |-> like.username]), NoRelay)

\* helper.reset_database: the store is put back to its initial contents.
helper_reset_database(d) == Res(HTTP_200_OK, EmptyDb, NoOut, NoRelay)

(* ----------------------------- route layer ---------------------------- *)
\* The route table with the dependency left off GET /client/activity.
DependsAuth_open_activity ==
    {"get_me", "get_user_profile", "search_users", "follow_user",
     "get_followers", "get_following", "create_bio", "update_avatar", "get_feed",
     "get_post", "get_post_likes", "get_comments", "create_post", "create_comment",
     "create_like"}

\* The routes declared with Depends(auth.get_current_active_user).
DependsAuth ==
    {"get_me", "get_user_profile", "get_activity", "search_users", "follow_user",
     "get_followers", "get_following", "create_bio", "update_avatar", "get_feed",
     "get_post", "get_post_likes", "get_comments", "create_post", "create_comment",
     "create_like"}

current_user(tok) == get_current_active_user(tok).user

\* What a route answers: the status, whether its handler ran, the store and the
\* issued tokens it leaves, the body and the outbound pushes it made.
Response(status, invoked, d, issued, out, relay) ==
    [status |-> status, invoked |-> invoked, db |-> d, tokens |-> issued,
     out |-> out, relay |-> relay]

\* A route of DependsAuth whose dependency fails answers with the dependency's
\* error and its handler is not run; every other request runs the handler on r,
\* what its method returns.
Serve(route, tok, r) ==
    IF route \in DependsAuth /\ ~ Accepted(tok)
    THEN Response(get_current_active_user(tok).status, FALSE, Db, tokens, NoOut, NoRelay)
    ELSE Response(r.status, TRUE, r.db, tokens, r.out, r.relay)

\* Util --
reset_database(tok) ==
    Serve("reset_database", tok, helper_reset_database(Db))

\* A utility route that resets the store as well.
util_reset(tok) ==
    Serve("util", tok, helper_reset_database(Db))

util(tok) ==
    Serve("util", tok, Res(HTTP_200_OK, Db, NoOut, NoRelay))

\* Auth --
\* A login that keeps one session only: the new token replaces the issued ones.
login_single_session(username, password) ==
    LET r == auth_login(Db, username, password)
    IN Response(r.status, TRUE, Db,
                IF r.status = HTTP_200_OK
                THEN {[tok |-> r.out.body.access_token, username |-> username]}
                ELSE tokens,
                r.out, NoRelay)

login(username, password) ==
    LET r == auth_login(Db, username, password)
    IN Response(r.status, TRUE, Db,
                IF r.status = HTTP_200_OK
                THEN tokens \cup {[tok |-> r.out.body.access_token, username |-> username]}
                ELSE tokens,
                r.out, NoRelay)

\* Foreign Server Endpoints --
server_search_users(tok, search_user) ==
    Serve("server_search_users", tok,
          methods_search_users(Db, search_user.search_query, search_user.username))

server_follow_user(tok, users_) ==
    Serve("server_follow_user", tok,
          methods_server_follow_user(Db, users_.username, users_.user))

\* A /server/post that stores the post without looking for its author.
server_create_post_unchecked(tok, post_id, photo, username) ==
    Serve("server_create_post", tok,
          IF PostExists(Db, post_id)
          THEN Res(Conflict, Db, NoOut, NoRelay)
          ELSE LET row == [id |-> post_id, author |-> username, created |-> Now(Db)]
               IN Res(HTTP_201_CREATED, [Db EXCEPT !.posts = @ \cup {row}],
                      Out("post", row), NoRelay))

\* A /server/post that takes the author from the bearer token when there is a
\* valid one.
server_create_post_as_token_user(tok, post_id, photo, username) ==
    Serve("server_create_post", tok,
          methods_server_create_post(Db, post_id, photo,
              IF Accepted(tok) THEN current_user(tok) ELSE username))

server_create_post(tok, post_id, photo, username) ==
    Serve("server_create_post", tok,
          methods_server_create_post(Db, post_id, photo, username))

receive_comment(tok, comment) ==
    Serve("receive_comment", tok,
          methods_server_create_comment(Db, comment))

receive_like(tok, like) ==
    Serve("receive_like", tok, methods_server_create_like(Db, like))

\* User --
\* A signup that writes the user without looking for the username first.
create_user_unchecked(tok, user) ==
    Serve("create_user", tok,
          Res(HTTP_201_CREATED,
              [Db EXCEPT !.users = {u \in @ : u.username # user.username}
                                     \cup {NewUser(user.username, user.password, Local)}],
              NoOut, NoRelay))

create_user(tok, user) ==
    Serve("create_user", tok,
          methods_create_user(Db, user.username, user.password))

get_me(tok) ==
    Serve("get_me", tok,
          methods_get_user_profile(Db, current_user(tok), current_user(tok)))

get_user_profile(tok, username) ==
    Serve("get_user_profile", tok,
          methods_get_user_profile(Db, username, current_user(tok)))

get_activity(tok) ==
    Serve("get_activity", tok, methods_get_activity(Db, current_user(tok)))

search_users(tok, search_query) ==
    Serve("search_users", tok,
          methods_search_users(Db, search_query, current_user(tok)))

\* A follow that adds the edge without looking for it first.
follow_user_unchecked(tok, username, ok) ==
    Serve("follow_user", tok,
          IF ~ UserExists(Db, username)
          THEN Res(NotFound, Db, NoOut, NoRelay)
          ELSE Res(HTTP_201_CREATED,
                   [Db EXCEPT !.follows[<<current_user(tok), username>>] = @ + 1],
                   NoOut, NoRelay))

follow_user(tok, username, ok) ==
    Serve("follow_user", tok,
          methods_follow_user(Db, username, current_user(tok), ok))

get_followers(tok) ==
    Serve("get_followers", tok, methods_get_followers(Db, current_user(tok)))

get_following(tok) ==
    Serve("get_following", tok, methods_get_following(Db, current_user(tok)))

create_bio(tok, bio) ==
    Serve("create_bio", tok, methods_create_bio(Db, bio, current_user(tok)))

update_avatar(tok, file) ==
    Serve("update_avatar", tok, methods_update_avatar(Db, file, current_user(tok)))

\* Posts, Comments, Likes, & Media --
\* A feed of every post there is, followed author or not.
get_feed_everyone(tok) ==
    Serve("get_feed", tok, Res(HTTP_200_OK, Db, Out("feed", NewestFirst(posts)), NoRelay))

get_feed(tok) ==
    Serve("get_feed", tok, methods_get_feed(Db, current_user(tok)))

get_post(tok, post_id) ==
    Serve("get_post", tok, methods_get_post(Db, post_id, current_user(tok)))

get_post_likes(tok, post_id) ==
    Serve("get_post_likes", tok, methods_get_post_likes(Db, post_id))

get_comments(tok, post_id) ==
    Serve("get_comments", tok, methods_get_post_comments(Db, post_id))

\* A post whose failed push is made a second time.
create_post_retry(tok, photo, ok) ==
    LET r == methods_create_post(Db, photo, current_user(tok), ok)
    IN Serve("create_post", tok,
             Res(r.status, r.db, r.out,
                 IF ok THEN r.relay ELSE r.relay \o r.relay))

create_post(tok, photo, ok) ==
    Serve("create_post", tok, methods_create_post(Db, photo, current_user(tok), ok))

\* A comment stored without looking for its post.
create_comment_unchecked(tok, comment, ok) ==
    LET row == [id |-> Now(Db), post |-> comment.post_id, author |-> current_user(tok)]
    IN Serve("create_comment", tok,
             Res(HTTP_201_CREATED, [Db EXCEPT !.comments = @ \cup {row}],
                 Out("comment", row), NoRelay))

create_comment(tok, comment, ok) ==
    Serve("create_comment", tok,
          methods_create_comment(Db, comment, current_user(tok), ok))

create_like(tok, post_id, ok) ==
    Serve("create_like", tok,
          methods_create_like(Db, post_id, current_user(tok), ok))

get_photo(tok, url, stored) ==
    Serve("get_photo", tok, methods_get_photo(Db, url, stored))

(* --------------------------- specification ---------------------------- *)
Urls == {"media/a.png"}
\* The post ids a request names: those of the posts there are, and one of no post.
PostIdInputs == {p.id : p \in posts} \cup {MissingPostId}
ServerUsers == [username : Usernames, home : RemoteInstances]

\* What is kept of a response: its status, whether the handler ran and the
\* outbound pushes made for it.
Observed(resp) ==
    [status |-> resp.status, invoked |-> resp.invoked, relay |-> resp.relay]

Init ==
    /\ users = EmptyDb.users
    /\ follows = EmptyDb.follows
    /\ posts = EmptyDb.posts
    /\ comments = EmptyDb.comments
    /\ likes = EmptyDb.likes
    /\ tokens = {}
    /\ lastCall = [status |-> HTTP_200_OK, invoked |-> FALSE, relay |-> NoRelay]

\* One request is handled: the store and the tokens become what the route left,
\* within the capacity of the store and of the token space.
Handle(resp) ==
    /\ IF resp.db = Db THEN TRUE ELSE Rows(resp.db) <= MaxRows
    /\ IF resp.tokens = tokens THEN TRUE ELSE Cardinality(resp.tokens) <= MaxTokens
    /\ SetDb(resp.db)
    /\ tokens' = resp.tokens
    /\ lastCall' = Observed(resp)

\* One action per route. The bearer token of the request is any token value,
\* none included; POST /token takes a form and no token.
GET_reset_database == \E tok \in Tokens : Handle(reset_database(tok))

GET_util == \E tok \in Tokens : Handle(util(tok))

POST_token == \E u \in Usernames, pw \in LoginPasswords : Handle(login(u, pw))

GET_server_search ==
    \E tok \in Tokens :
      \E q \in Queries, u \in Usernames :
          Handle(server_search_users(tok, [search_query |-> q, username |-> u]))

POST_server_follow ==
    \E tok \in Tokens :
      \E t \in Usernames, su \in ServerUsers :
          Handle(server_follow_user(tok, [username |-> t, user |-> su]))

POST_server_post ==
    \E tok \in Tokens :
      \E id \in RemotePostIds \cup {p.id : p \in posts}, u \in Usernames :
          Handle(server_create_post(tok, id, NoFile, u))

POST_server_comment ==
    \E tok \in Tokens :
      \E id \in PostIdInputs, u \in Usernames :
          Handle(receive_comment(tok, [post_id |-> id, username |-> u]))

POST_server_like ==
    \E tok \in Tokens :
      \E id \in PostIdInputs, u \in Usernames :
          Handle(receive_like(tok, [post_id |-> id, username |-> u]))

POST_client_signup ==
    \E tok \in Tokens :
      \E u \in Usernames, pw \in Passwords :
          Handle(create_user(tok, [username |-> u, password |-> pw]))

GET_client_me == \E tok \in Tokens : Handle(get_me(tok))

GET_client_users ==
    \E tok \in Tokens :
      \E u \in Usernames : Handle(get_user_profile(tok, u))

GET_client_activity == \E tok \in Tokens : Handle(get_activity(tok))

GET_client_search ==
    \E tok \in Tokens :
      \E q \in Queries : Handle(search_users(tok, q))

POST_client_follow ==
    \E tok \in Tokens :
      \E u \in Usernames, ok \in BOOLEAN : Handle(follow_user(tok, u, ok))

GET_client_followers == \E tok \in Tokens : Handle(get_followers(tok))

GET_client_following == \E tok \in Tokens : Handle(get_following(tok))

POST_client_bio == \E tok \in Tokens : Handle(create_bio(tok, "hi"))

POST_client_avatar ==
    \E tok \in Tokens :
      \E f \in Files : Handle(update_avatar(tok, f))

GET_client_posts == \E tok \in Tokens : Handle(get_feed(tok))

GET_client_post ==
    \E tok \in Tokens :
      \E id \in PostIdInputs : Handle(get_post(tok, id))

GET_client_likes ==
    \E tok \in Tokens :
      \E id \in PostIdInputs : Handle(get_post_likes(tok, id))

GET_client_comments ==
    \E tok \in Tokens :
      \E id \in PostIdInputs : Handle(get_comments(tok, id))

POST_client_post ==
    \E tok \in Tokens :
      \E ok \in BOOLEAN : Handle(create_post(tok, NoFile, ok))

POST_client_comment ==
    \E tok \in Tokens :
      \E id \in PostIdInputs, ok \in BOOLEAN :
          Handle(create_comment(tok, [post_id |-> id], ok))

POST_client_like ==
    \E tok \in Tokens :
      \E id \in PostIdInputs, ok \in BOOLEAN : Handle(create_like(tok, id, ok))

GET_client_media ==
    \E tok \in Tokens :
      \E url \in Urls, stored \in BOOLEAN : Handle(get_photo(tok, url, stored))

Next ==
    \/ GET_reset_database
    \/ GET_util
    \/ POST_token
    \/ GET_server_search
    \/ POST_server_follow
    \/ POST_server_post
    \/ POST_server_comment
    \/ POST_server_like
    \/ POST_client_signup
    \/ GET_client_me
    \/ GET_client_users
    \/ GET_client_activity
    \/ GET_client_search
    \/ POST_client_follow
    \/ GET_client_followers
    \/ GET_client_following
    \/ POST_client_bio
    \/ POST_client_avatar
    \/ GET_client_posts
    \/ GET_client_post
    \/ GET_client_likes
    \/ GET_client_comments
    \/ POST_client_post
    \/ POST_client_comment
    \/ POST_client_like
    \/ GET_client_media

Spec == Init /\ [][Next]_vars

(* ======================= requests and their answers =================== *)
\* What one request would be answered in the current state: the route by its
\* verb and path, the status, whether the handler ran, whether the store and
\* the tokens stay as they are, whether every user stays, whether exactly one
\* row is added, and the outbound pushes.
Names(d) == {u.username : u \in d.users}

Outcome(route, resp) ==
    [route |-> route, status |-> resp.status, invoked |-> resp.invoked,
     same |-> resp.db = Db /\ resp.tokens = tokens,
     kept |-> Names(Db) \subseteq Names(resp.db),
     grew |-> Rows(resp.db) = Rows(Db) + 1,
     relay |-> resp.relay]

ClientRequests(tok) ==
    {Outcome("POST /client/signup", create_user(tok, [username |-> u, password |-> pw])) :
        u \in Usernames, pw \in Passwords}
    \cup {Outcome("GET /client/me", get_me(tok))}
    \cup {Outcome("GET /client/users", get_user_profile(tok, u)) : u \in Usernames}
    \cup {Outcome("GET /client/activity", get_activity(tok))}
    \cup {Outcome("GET /client/search", search_users(tok, q)) : q \in Queries}
    \cup {Outcome("POST /client/follow", follow_user(tok, u, ok)) :
            u \in Usernames, ok \in BOOLEAN}
    \cup {Outcome("GET /client/followers", get_followers(tok))}
    \cup {Outcome("GET /client/following", get_following(tok))}
    \cup {Outcome("POST /client/bio", create_bio(tok, "hi"))}
    \cup {Outcome("POST /client/avatar", update_avatar(tok, f)) : f \in Files}
    \cup {Outcome("GET /client/posts", get_feed(tok))}
    \cup {Outcome("GET /client/post", get_post(tok, id)) : id \in PostIdInputs}
    \cup {Outcome("GET /client/likes", get_post_likes(tok, id)) : id \in PostIdInputs}
    \cup {Outcome("GET /client/comments", get_comments(tok, id)) : id \in PostIdInputs}
    \cup {Outcome("POST /client/post", create_post(tok, NoFile, ok)) : ok \in BOOLEAN}
    \cup {Outcome("POST /client/comment", create_comment(tok, [post_id |-> id], ok)) :
            id \in PostIdInputs, ok \in BOOLEAN}
    \cup {Outcome("POST /client/like", create_like(tok, id, ok)) :
            id \in PostIdInputs, ok \in BOOLEAN}
    \cup {Outcome("GET /client/media/", get_photo(tok, url, stored)) :
            url \in Urls, stored \in BOOLEAN}

ServerRequests(tok) ==
    {Outcome("GET /server/search",
             server_search_users(tok, [search_query |-> q, username |-> u])) :
        q \in Queries, u \in Usernames}
    \cup {Outcome("POST /server/follow",
                  server_follow_user(tok, [username |-> t, user |-> su])) :
            t \in Usernames, su \in ServerUsers}
    \cup {Outcome("POST /server/post", server_create_post(tok, id, NoFile, u)) :
            id \in RemotePostIds \cup {p.id : p \in posts}, u \in Usernames}
    \cup {Outcome("POST /server/comment",
                  receive_comment(tok, [post_id |-> id, username |-> u])) :
            id \in PostIdInputs, u \in Usernames}
    \cup {Outcome("POST /server/like",
                  receive_like(tok, [post_id |-> id, username |-> u])) :
            id \in PostIdInputs, u \in Usernames}

OtherRequests(tok) ==
    {Outcome("GET /reset_database", reset_database(tok))}
    \cup {Outcome("GET /util", util(tok))}
    \cup {Outcome("POST /token", login(u, pw)) : u \in Usernames, pw \in LoginPasswords}

AllRequests(tok) == ClientRequests(tok) \cup ServerRequests(tok) \cup OtherRequests(tok)

Issued(tok) == \E t \in tokens : t.tok = tok

(* =============================== claims =============================== *)
Rejected(o) == ~ o.invoked /\ o.status \in {Unauthorized, Forbidden} /\ o.same

\* C1, as stated: every route under /client/ other than POST /client/signup
\* requires a valid bearer token: a request with no token or an invalid one is
\* rejected and the route's method is not invoked.
C1_EveryClientRouteRequiresToken ==
    \A tok \in Tokens :
        ~ Accepted(tok) =>
            \A o \in ClientRequests(tok) :
                o.route # "POST /client/signup" => Rejected(o)

\* C1, amended: every route under /client/ other than POST /client/signup and
\* GET /client/media/ requires a valid bearer token: a request with no token or
\* an invalid one is rejected, the store is untouched and the route's method is
\* not invoked.
C1_ClientRoutesButMediaRequireToken ==
    \A tok \in Tokens :
        ~ Accepted(tok) =>
            \A o \in ClientRequests(tok) :
                o.route \notin {"POST /client/signup", "GET /client/media/"} => Rejected(o)

\* A request was rejected for its token while users, rows and tokens exist.
C1_Witness ==
    /\ lastCall.status = Unauthorized
    /\ ~ lastCall.invoked
    /\ tokens # {}
    /\ Rows(Db) > 0

AuthenticatedRequests(tok) ==
    {o \in ClientRequests(tok) :
        o.route \notin {"POST /client/signup", "GET /client/media/"}}

C2_State ==
    \A tok \in Tokens :
        /\ ~ Issued(tok) => ~ Accepted(tok)
        /\ ~ Issued(tok) =>
              \A o \in AuthenticatedRequests(tok) : Rejected(o) /\ o.status = Unauthorized
        /\ Accepted(tok) =>
              \A o \in AuthenticatedRequests(tok) :
                  o.invoked /\ o.status \notin {Unauthorized, Forbidden}

C2_Step ==
    /\ \A t \in tokens' \ tokens : Accepted(t.tok)'
    /\ \A tok \in Tokens : (Accepted(tok) /\ ~ Accepted(tok)') => GET_reset_database

CanLogin(username, password) == login(username, password).status = HTTP_200_OK

C3_Signup ==
    \A tok \in Tokens, u \in Usernames, pw \in Passwords :
        LET resp == create_user(tok, [username |-> u, password |-> pw])
        IN IF UserExists(Db, u)
           THEN resp.status = Conflict /\ resp.db.users = users
           ELSE /\ resp.status = HTTP_201_CREATED
                /\ auth_login(resp.db, u, pw).status = HTTP_200_OK

C4_OneEdgePerPair ==
    /\ \A p \in Pairs : follows[p] <= 1
    /\ \A tok \in Tokens :
          /\ Accepted(tok) =>
                \A t \in Usernames :
                    follows[<<current_user(tok), t>>] > 0 =>
                        /\ get_following(tok).out.body[t] = 1
                        /\ \A ok \in BOOLEAN :
                              /\ follow_user(tok, t, ok).status = Conflict
                              /\ follow_user(tok, t, ok).db = Db
          /\ \A t \in Usernames, su \in ServerUsers :
                follows[<<su.username, t>>] > 0 =>
                    LET resp == server_follow_user(tok, [username |-> t, user |-> su])
                    IN resp.status = Conflict /\ resp.db = Db

\* A follow was refused with Conflict where a remote user follows a local one
\* and is followed back by the holder of a valid token.
C4_Witness ==
    /\ lastCall.status = Conflict
    /\ lastCall.invoked
    /\ \E tok \in Tokens, t \in Usernames :
          /\ Accepted(tok)
          /\ IsRemote(Db, t)
          /\ follows[<<current_user(tok), t>>] = 1
          /\ follows[<<t, current_user(tok)>>] = 1

\* C5: the feed of U is exactly the posts whose author is U or a user U
\* follows, those received through POST /server/post included, each once, the
\* newest first.
C5_FeedIsOwnAndFollowed ==
    \A tok \in Tokens :
        Accepted(tok) =>
            LET U == current_user(tok)
                feed == get_feed(tok).out.body
                want == {p \in posts : p.author = U \/ follows[<<U, p.author>>] > 0}
            IN /\ get_feed(tok).status = HTTP_200_OK
               /\ {feed[i] : i \in DOMAIN feed} = want
               /\ Len(feed) = Cardinality(want)
               /\ \A i, j \in DOMAIN feed : i < j => feed[i].created > feed[j].created

\* The feed of a user holds an own post and a post of a followed user that came
\* through POST /server/post.
C5_Witness ==
    \E tok \in Tokens :
        /\ Accepted(tok)
        /\ Len(get_feed(tok).out.body) = 2
        /\ \E p \in posts : p.id \in RemotePostIds /\ p.author # current_user(tok)
        /\ \E p \in posts : p.author = current_user(tok)
        /\ lastCall.invoked

C6_Create ==
    \A tok \in Tokens :
        Accepted(tok) =>
            \A id \in PostIds, ok \in BOOLEAN :
                LET resp == create_comment(tok, [post_id |-> id], ok)
                IN IF ~ PostExists(Db, id)
                   THEN resp.status = NotFound /\ resp.db = Db
                   ELSE /\ resp.status = HTTP_201_CREATED
                        /\ \E c \in resp.db.comments :
                              /\ resp.db.comments = comments \cup {c}
                              /\ c \notin comments
                              /\ c.post = id
                              /\ c.author = current_user(tok)

C6_Read ==
    \A c \in comments' \ comments :
        \A tok \in Tokens, id \in PostIds :
            Accepted(tok)' =>
                (c \in get_comments(tok, id)'.out.body <=> id = c.post)

\* C6: create_comment on a post id that does not exist is answered NotFound and
\* stores nothing; on an existing post it succeeds, and the comment is then
\* returned by get_comments for that post id and for no other.
C6_CommentNeedsPost == [](C6_Create) /\ [][C6_Read]_vars

\* A comment was created on one of two posts.
C6_Witness ==
    /\ lastCall.status = HTTP_201_CREATED
    /\ Cardinality(posts) = 2
    /\ \E c \in comments : \E tok \in Tokens : Accepted(tok) /\ c.author = current_user(tok)

PushedOnce(relay) ==
    \A i, j \in DOMAIN relay : i # j => relay[i].to # relay[j].to

C8_Push ==
    \A tok \in Tokens :
        \A o \in AllRequests(tok) :
            o.relay # NoRelay =>
                /\ o.status = HTTP_201_CREATED
                /\ o.grew
                /\ PushedOnce(o.relay)

C8_Keep ==
    IF /\ posts \subseteq posts'
       /\ comments \subseteq comments'
       /\ \A p \in Pairs : follows[p] <= follows'[p]
       /\ \A k \in LikeKeys : likes[k] <= likes'[k]
    THEN TRUE
    ELSE GET_reset_database

\* C8: when the outbound push of a local mutation fails, the local write is
\* committed all the same and stays (up to the next reset of the store); a push
\* is made only by the request that makes the mutation, once per remote
\* instance, failed or not, and nothing is kept for another attempt.
C8_BestEffortRelay == [](C8_Push) /\ [][C8_Keep]_vars

\* The push of a comment to the instance of the post's remote author failed,
\* and the comment is stored.
C8_Witness ==
    /\ lastCall.relay # NoRelay
    /\ ~ lastCall.relay[1].ok
    /\ lastCall.status = HTTP_201_CREATED
    /\ comments # {}
    /\ \E p \in posts : IsRemote(Db, p.author)

\* C10: every /server/ route runs its handler whatever the token, none
\* included, and what it creates carries the username of the payload, also when
\* the request carries the valid token of another user.
C10_ServerRoutesTrustPayload ==
    \A tok \in Tokens :
        /\ \A o \in ServerRequests(tok) :
              o.invoked /\ o.status \notin {Unauthorized, Forbidden}
        /\ \A id \in RemotePostIds \cup {p.id : p \in posts}, u \in Usernames :
              LET resp == server_create_post(tok, id, NoFile, u)
              IN resp.status = HTTP_201_CREATED =>
                    \E p \in resp.db.posts :
                        p.id = id /\ p.author = u /\ resp.db.posts = posts \cup {p}
        /\ \A t \in Usernames, su \in ServerUsers :
              LET resp == server_follow_user(tok, [username |-> t, user |-> su])
              IN resp.status = HTTP_201_CREATED =>
                    resp.db.follows = [follows EXCEPT ![<<su.username, t>>] = @ + 1]
        /\ \A id \in PostIdInputs, u \in Usernames :
              LET resp == receive_comment(tok, [post_id |-> id, username |-> u])
              IN resp.status = HTTP_201_CREATED =>
                    \E c \in resp.db.comments :
                        c.post = id /\ c.author = u /\ resp.db.comments = comments \cup {c}
        /\ \A id \in PostIdInputs, u \in Usernames :
              LET resp == receive_like(tok, [post_id |-> id, username |-> u])
              IN resp.status = HTTP_201_CREATED =>
                    resp.db.likes = [likes EXCEPT ![<<id, u>>] = @ + 1]

\* A post came through POST /server/post under another name than that of the
\* holder of a valid token.
C10_Witness ==
    /\ lastCall.status = HTTP_201_CREATED
    /\ lastCall.invoked
    /\ \E p \in posts, tok \in Tokens :
          /\ p.id \in RemotePostIds
          /\ Accepted(tok)
          /\ current_user(tok) # p.author

====
